---- MODULE Spec2Model ----
(***************************************************************************)
(* The game framework session (turn state machine) driving the two         *)
(* plugins of the repository: the Memory plugin and the                    *)
(* Rocks-Paper-Scissors plugin, behind the HTTP entry point App.serve.     *)
(***************************************************************************)
EXTENDS Integers, Sequences, FiniteSets, TLC

\* ------------------------------------------------------------------------
\* Program constants
\* ------------------------------------------------------------------------
WIDTH == 4
HEIGHT == 4
WORDS == <<"Apple", "Boat", "Car", "Dog", "Eagle", "Fish", "Giraffe", "Helicopter">>
UNKNOWN_SQUARE_STRING == "?"
BLANK_SQUARE_STRING == ""
SELECT_FIRST_CARD_MSG == "Select first card."
SELECT_SECOND_CARD_MSG == "Select second card."
MATCH_FOUND_MSG == "You found a match!  Select first card."
NOT_A_MATCH_MSG == "That was not a match.  Select first card."
MEMORY_PLAYERS == 2

RPS_WIDTH == 3
RPS_HEIGHT == 1
ROCK == 0
PAPER == 1
SCISSORS == 2
\* Object.keys of a numeric TypeScript enum lists the three names and the
\* three reverse-mapping keys "0", "1", "2".
StateKeys == {"0", "1", "2", "ROCK", "PAPER", "SCISSORS"}
stateCount == Cardinality(StateKeys)
GAME_START_FOOTER == "You are playing Rocks Paper Scissors with a computer!"
RPS_PLAYER_WON_MSG == "You won!"
COMPUTER_WON_MSG == "The computer won!"
GAME_TIED_MSG == "The game ended in a tie."

\* JavaScript's null and undefined, and a thrown Error
NULL == "null"
UNDEFINED == "undefined"
NoError == "none"

\* ------------------------------------------------------------------------
\* Bounds of the exploration
\* ------------------------------------------------------------------------
\* Math.random() is a multiple of 1/RandDen in [0, 1)
RandDen == 6
\* number of random streams the shuffle is explored with
NumSeeds == 1
\* move coordinates are drawn from -CoordMargin .. WIDTH - 1 + CoordMargin
CoordMargin == 1
\* resolved turns explored per memory game, mismatches included, when only the
\* memory plugin is played
MaxTurns == 2
\* resolved turns explored per memory game when both plugins are played
MixedTurns == 1
\* coordinates played in the running game when a /plugin request names anything
\* but the running plugin
SwitchMoves == 0
\* plugin indexes requested: IndexMargin below and above those of App.plugins
IndexMargin == 1
\* request threads of the transport
NumThreads == 2
\* board positions a memory turn is started at: those below FirstCards
FirstCards == 4

Seeds == 0 .. (NumSeeds - 1)
Xs == (0 - CoordMargin) .. (WIDTH - 1 + CoordMargin)
Ys == (0 - CoordMargin) .. (HEIGHT - 1 + CoordMargin)
RandomValues == 0 .. (RandDen - 1)

\* ------------------------------------------------------------------------
\* Math.random and shuffle
\* ------------------------------------------------------------------------
\* Math.floor(Math.random() * n) for Math.random() = u / RandDen
RandomBelow(u, n) == (u * n) \div RandDen

\* the k-th value Math.random() yields in the stream `seed`
RandomOf(seed, k) == (11 * seed + 5 * k + 3) % RandDen

Swap(array, i, j) == [array EXCEPT ![i + 1] = array[j + 1], ![j + 1] = array[i + 1]]

RECURSIVE ShuffleFrom(_, _, _)
ShuffleFrom(array, currentIndex, seed) ==
  IF currentIndex = 0 THEN array
  ELSE LET randomIndex == RandomBelow(RandomOf(seed, currentIndex), currentIndex)
       IN ShuffleFrom(Swap(array, currentIndex - 1, randomIndex), currentIndex - 1, seed)

shuffle(array, seed) == ShuffleFrom(array, Len(array), seed)

\* ------------------------------------------------------------------------
\* class Memory<T>
\* ------------------------------------------------------------------------
NewMemory(numberOfPlayers, items, seed) ==
  [ board |-> shuffle(items \o items, seed),
    numberOfPlayers |-> numberOfPlayers,
    scores |-> [i \in 0 .. (numberOfPlayers - 1) |-> 0],
    currentPlayer |-> 0 ]

itemAt(game, index) ==
  IF index \in 0 .. (Len(game.board) - 1) THEN game.board[index + 1] ELSE UNDEFINED

hasItemAt(game, index) == itemAt(game, index) # NULL

scoreForPlayer(game, playerNumber) == game.scores[playerNumber]

isOver(game) == \A i \in 1 .. Len(game.board) : game.board[i] = NULL

SetMax(S) == CHOOSE m \in S : \A n \in S : n <= m

leaders(game) ==
  LET maxScore == SetMax({game.scores[i] : i \in DOMAIN game.scores})
  IN SelectSeq([i \in 1 .. game.numberOfPlayers |-> i - 1],
               LAMBDA p : game.scores[p] = maxScore)

\* board[index] = null on a JavaScript array: an index past the end grows the
\* array and leaves holes (read as undefined); a negative index adds a property
\* that is no element.
StoreNull(board, index) ==
  IF index \in 0 .. (Len(board) - 1) THEN [board EXCEPT ![index + 1] = NULL]
  ELSE IF index >= Len(board)
       THEN board \o [i \in 1 .. (index - Len(board)) |-> UNDEFINED] \o <<NULL>>
       ELSE board

\* validateItemAt: the Error thrown, or NoError
validateItemAt(game, index) ==
  IF itemAt(game, index) = NULL THEN "Player selected empty position" ELSE NoError

\* selectMatch removing only the first of two matched items
selectMatchKeepsSecond(game, first, second) ==
  IF validateItemAt(game, first) # NoError
  THEN [game |-> game, result |-> FALSE, err |-> validateItemAt(game, first)]
  ELSE IF validateItemAt(game, second) # NoError
  THEN [game |-> game, result |-> FALSE, err |-> validateItemAt(game, second)]
  ELSE IF itemAt(game, first) # itemAt(game, second)
  THEN [game |-> [game EXCEPT !.currentPlayer = (game.currentPlayer + 1) % game.numberOfPlayers],
        result |-> FALSE, err |-> NoError]
  ELSE [game |-> [game EXCEPT !.board = StoreNull(game.board, first),
                              !.scores[game.currentPlayer] = @ + 1],
        result |-> TRUE, err |-> NoError]

\* selectMatch advancing the player without the modulo
selectMatchNoWrap(game, first, second) ==
  IF validateItemAt(game, first) # NoError
  THEN [game |-> game, result |-> FALSE, err |-> validateItemAt(game, first)]
  ELSE IF validateItemAt(game, second) # NoError
  THEN [game |-> game, result |-> FALSE, err |-> validateItemAt(game, second)]
  ELSE IF itemAt(game, first) # itemAt(game, second)
  THEN [game |-> [game EXCEPT !.currentPlayer = game.currentPlayer + 1],
        result |-> FALSE, err |-> NoError]
  ELSE [game |-> [game EXCEPT !.board = StoreNull(StoreNull(game.board, first), second),
                              !.scores[game.currentPlayer] = @ + 1],
        result |-> TRUE, err |-> NoError]

\* selectMatch removing a matched pair without scoring it
selectMatchNoScore(game, first, second) ==
  IF validateItemAt(game, first) # NoError
  THEN [game |-> game, result |-> FALSE, err |-> validateItemAt(game, first)]
  ELSE IF validateItemAt(game, second) # NoError
  THEN [game |-> game, result |-> FALSE, err |-> validateItemAt(game, second)]
  ELSE IF itemAt(game, first) # itemAt(game, second)
  THEN [game |-> [game EXCEPT !.currentPlayer = (game.currentPlayer + 1) % game.numberOfPlayers],
        result |-> FALSE, err |-> NoError]
  ELSE [game |-> [game EXCEPT !.board = StoreNull(StoreNull(game.board, first), second)],
        result |-> TRUE, err |-> NoError]

\* selectMatch: the game afterwards, the value returned and the Error thrown
selectMatch(game, first, second) ==
  IF validateItemAt(game, first) # NoError
  THEN [game |-> game, result |-> FALSE, err |-> validateItemAt(game, first)]
  ELSE IF validateItemAt(game, second) # NoError
  THEN [game |-> game, result |-> FALSE, err |-> validateItemAt(game, second)]
  ELSE IF itemAt(game, first) # itemAt(game, second)
  THEN [game |-> [game EXCEPT !.currentPlayer = (game.currentPlayer + 1) % game.numberOfPlayers],
        result |-> FALSE, err |-> NoError]
  ELSE [game |-> [game EXCEPT !.board = StoreNull(StoreNull(game.board, first), second),
                              !.scores[game.currentPlayer] = @ + 1],
        result |-> TRUE, err |-> NoError]

\* ------------------------------------------------------------------------
\* GameFramework: the grid and footer the plugins paint through their handle.
\* A world w holds what a plugin call can read or change: both plugin
\* instances, the grid, the footer and the Error thrown so far.
\* ------------------------------------------------------------------------
Cells(width, height) == (0 .. (width - 1)) \X (0 .. (height - 1))

NewGrid(width, height) == [c \in Cells(width, height) |-> UNDEFINED]

setSquare(w, x, y, value) ==
  IF <<x, y>> \in DOMAIN w.grid THEN [w EXCEPT !.grid[<<x, y>>] = value] ELSE w

setFooterText(w, text) == [w EXCEPT !.footer = text]

\* ------------------------------------------------------------------------
\* class MemoryPlugin
\* ------------------------------------------------------------------------
NewMemoryPlugin(seed) ==
  [ framework |-> FALSE,
    game |-> NewMemory(MEMORY_PLAYERS, WORDS, seed),
    numberOfCardsSelected |-> 0,
    firstIndexSelected |-> -1,
    secondIndexSelected |-> -1,
    matchFound |-> FALSE ]

MemOnRegister(w) == [w EXCEPT !.mp.framework = TRUE]

\* the double loop of onNewGame: setSquare(i, j, '?') for i < HEIGHT, j < WIDTH
RECURSIVE PaintUnknown(_, _)
PaintUnknown(w, n) ==
  IF n = 0 THEN w
  ELSE PaintUnknown(setSquare(w, (n - 1) \div WIDTH, (n - 1) % WIDTH, UNKNOWN_SQUARE_STRING),
                    n - 1)

MemOnNewGame(w, seed) ==
  IF ~w.mp.framework THEN w
  ELSE LET painted == PaintUnknown(w, HEIGHT * WIDTH)
       IN setFooterText(
            [painted EXCEPT !.mp.game = NewMemory(MEMORY_PLAYERS, WORDS, seed),
                            !.mp.numberOfCardsSelected = 0,
                            !.mp.firstIndexSelected = -1,
                            !.mp.secondIndexSelected = -1],
            SELECT_FIRST_CARD_MSG)

\* onNewMove that leaves the count of selected cards as it is
MemOnNewMoveKeeps(w) == w

\* onNewMove that also prompts for the first card
MemOnNewMovePrompts(w) ==
  setFooterText([w EXCEPT !.mp.numberOfCardsSelected = 0], SELECT_FIRST_CARD_MSG)

MemOnNewMove(w) == [w EXCEPT !.mp.numberOfCardsSelected = 0]

boardPositionFor(x, y) == (y * WIDTH) + x

MemIsMoveValid(w, x, y) ==
  IF w.mp.numberOfCardsSelected = 1 /\ boardPositionFor(x, y) = w.mp.firstIndexSelected
  THEN FALSE
  ELSE hasItemAt(w.mp.game, boardPositionFor(x, y))

MemIsMoveOver(w) == w.mp.numberOfCardsSelected > 1

\* hiding only the first square of the previous turn
HidePreviousFirstOnly(w) ==
  IF w.mp.firstIndexSelected >= 0 /\ w.mp.secondIndexSelected >= 0
  THEN LET shown == IF w.mp.matchFound THEN BLANK_SQUARE_STRING ELSE UNKNOWN_SQUARE_STRING
       IN setSquare(w, w.mp.firstIndexSelected % HEIGHT,
                    w.mp.firstIndexSelected \div HEIGHT, shown)
  ELSE w

\* the squares of the previous turn are blanked or hidden again
HidePrevious(w) ==
  IF w.mp.firstIndexSelected >= 0 /\ w.mp.secondIndexSelected >= 0
  THEN LET shown == IF w.mp.matchFound THEN BLANK_SQUARE_STRING ELSE UNKNOWN_SQUARE_STRING
       IN setSquare(
            setSquare(w, w.mp.firstIndexSelected % HEIGHT,
                      w.mp.firstIndexSelected \div HEIGHT, shown),
            w.mp.secondIndexSelected % HEIGHT, w.mp.secondIndexSelected \div HEIGHT, shown)
  ELSE w

\* the first card shown with the squares of the previous turn left as they are
MemFirstCardKeepsPrevious(w, x, y) ==
  LET first == boardPositionFor(x, y)
      picked == [w EXCEPT !.mp.firstIndexSelected = first,
                          !.mp.numberOfCardsSelected = @ + 1]
  IN setFooterText(setSquare(picked, x, y, itemAt(picked.mp.game, first)),
                   SELECT_SECOND_CARD_MSG)

MemFirstCard(w, x, y) ==
  LET hidden == HidePrevious(w)
      first == boardPositionFor(x, y)
      picked == [hidden EXCEPT !.mp.firstIndexSelected = first,
                               !.mp.numberOfCardsSelected = @ + 1]
  IN setFooterText(setSquare(picked, x, y, itemAt(picked.mp.game, first)),
                   SELECT_SECOND_CARD_MSG)

MemSecondCard(w, x, y) ==
  LET second == boardPositionFor(x, y)
      picked == [w EXCEPT !.mp.numberOfCardsSelected = @ + 1,
                          !.mp.secondIndexSelected = second]
      shown == setSquare(picked, x, y, itemAt(picked.mp.game, second))
      sel == selectMatch(shown.mp.game, shown.mp.firstIndexSelected, second)
  IN IF sel.err # NoError THEN [shown EXCEPT !.err = sel.err]
     ELSE LET matched == [shown EXCEPT !.mp.game = sel.game, !.mp.matchFound = sel.result]
              told == setFooterText(matched,
                        IF sel.result THEN MATCH_FOUND_MSG ELSE NOT_A_MATCH_MSG)
          IN IF sel.result THEN [told EXCEPT !.mp.numberOfCardsSelected = 0] ELSE told

MemOnMovePlayed(w, x, y) ==
  IF ~w.mp.framework THEN w
  ELSE IF w.mp.numberOfCardsSelected = 0 THEN MemFirstCard(w, x, y)
  ELSE IF w.mp.numberOfCardsSelected # 1 THEN [w EXCEPT !.err = "assertion failed"]
  ELSE MemSecondCard(w, x, y)

MemIsGameOver(w) == isOver(w.mp.game)

\* 'Player %d won!' and 'Players %s tied.' with the placeholder replaced
tiedString(winners) ==
  IF Len(winners) = 2
  THEN ToString(winners[1] + 1) \o " and " \o ToString(winners[2] + 1)
  ELSE LET lastPosition == Len(winners) - 1
           RECURSIVE Listed(_)
           Listed(i) == IF i = 0 THEN ""
                        ELSE Listed(i - 1) \o ToString(winners[i] + 1) \o ", "
       IN Listed(lastPosition) \o "and " \o ToString(winners[lastPosition + 1] + 1)

MemGetGameOverMessage(w) ==
  LET winners == leaders(w.mp.game)
  IN IF Len(winners) = 1
     THEN [message |-> "Player " \o ToString(winners[1] + 1) \o " won!", err |-> NoError]
     ELSE [message |-> "Players " \o tiedString(winners) \o " tied.", err |-> NoError]

MemCurrentPlayer(w) == ToString(w.mp.game.currentPlayer + 1)

\* ------------------------------------------------------------------------
\* plugins/rockpaperscissors.ts
\* ------------------------------------------------------------------------
WIN == "WIN"
LOSE == "LOSE"
TIE == "TIE"

\* winner with the win and the loss exchanged
winnerExchanged(thisState, opponentState) ==
  IF thisState = opponentState THEN TIE
  ELSE IF ((thisState + 1) % stateCount) = opponentState THEN WIN
  ELSE LOSE

winner(thisState, opponentState) ==
  IF thisState = opponentState THEN TIE
  ELSE IF ((thisState + 1) % stateCount) = opponentState THEN LOSE
  ELSE WIN

\* randomMove for Math.random() = u / RandDen
randomMove(u) == RandomBelow(u, stateCount)

play(move, u) == winner(move, randomMove(u))

\* no move was drawn
NoMove == -1

NewRpsPlugin == [framework |-> FALSE, gameResult |-> NULL]

RpsOnRegister(w) == [w EXCEPT !.rps.framework = TRUE]

\* onNewGame keeping the result of the game before
RpsOnNewGameKeepsResult(w) ==
  IF ~w.rps.framework THEN w
  ELSE LET told == setFooterText(w, GAME_START_FOOTER)
       IN setSquare(setSquare(setSquare(told, ROCK, 0, "Rock"),
                              PAPER, 0, "Paper"),
                    SCISSORS, 0, "Scissors")

RpsOnNewGame(w) ==
  IF ~w.rps.framework THEN w
  ELSE LET told == setFooterText(w, GAME_START_FOOTER)
           painted == setSquare(setSquare(setSquare(told, ROCK, 0, "Rock"),
                                          PAPER, 0, "Paper"),
                                SCISSORS, 0, "Scissors")
       IN [painted EXCEPT !.rps.gameResult = NULL]

RpsOnNewMove(w) == w

RpsIsMoveValid(w, x, y) == TRUE

RpsIsMoveOver(w) == w.rps.gameResult # NULL

RpsOnMovePlayed(w, x, y, u) == [w EXCEPT !.rps.gameResult = play(x, u)]

RpsIsGameOver(w) == w.rps.gameResult # NULL

\* getGameOverMessage: the message returned and the Error thrown
RpsGetGameOverMessage(w) ==
  CASE w.rps.gameResult = TIE -> [message |-> GAME_TIED_MSG, err |-> NoError]
    [] w.rps.gameResult = WIN -> [message |-> RPS_PLAYER_WON_MSG, err |-> NoError]
    [] w.rps.gameResult = LOSE -> [message |-> COMPUTER_WON_MSG, err |-> NoError]
    [] OTHER -> [message |-> UNDEFINED,
                 err |-> "Called getGameOverMessage with incomplete game"]

RpsCurrentPlayer(w) == "Human"

\* ------------------------------------------------------------------------
\* The GamePlugin interface, dispatched on the plugin instance
\* ------------------------------------------------------------------------
MEMORY == "memory"
RPS == "rps"
NoPlugin == "none"

getGridWidth(p) == IF p = MEMORY THEN WIDTH ELSE RPS_WIDTH
getGridHeight(p) == IF p = MEMORY THEN HEIGHT ELSE RPS_HEIGHT
onRegister(p, w) == IF p = MEMORY THEN MemOnRegister(w) ELSE RpsOnRegister(w)
onNewGame(p, w, seed) == IF p = MEMORY THEN MemOnNewGame(w, seed) ELSE RpsOnNewGame(w)
onNewMove(p, w) == IF p = MEMORY THEN MemOnNewMove(w) ELSE RpsOnNewMove(w)
isMoveValid(p, w, x, y) == IF p = MEMORY THEN MemIsMoveValid(w, x, y) ELSE RpsIsMoveValid(w, x, y)
isMoveOver(p, w) == IF p = MEMORY THEN MemIsMoveOver(w) ELSE RpsIsMoveOver(w)
onMovePlayed(p, w, x, y, u) ==
  IF p = MEMORY THEN MemOnMovePlayed(w, x, y) ELSE RpsOnMovePlayed(w, x, y, u)
isGameOver(p, w) == IF p = MEMORY THEN MemIsGameOver(w) ELSE RpsIsGameOver(w)
onGameClosed(p, w) == w
getGameOverMessage(p, w) ==
  IF p = MEMORY THEN MemGetGameOverMessage(w) ELSE RpsGetGameOverMessage(w)
currentPlayer(p, w) == IF p = MEMORY THEN MemCurrentPlayer(w) ELSE RpsCurrentPlayer(w)

\* isMoveValid recording the position it is asked about
MemIsMoveValidSelects(w, x, y) ==
  [w |-> [w EXCEPT !.mp.firstIndexSelected = boardPositionFor(x, y)],
   result |-> MemIsMoveValid(w, x, y)]

\* a call of isMoveValid: the value returned and the state it leaves
MemIsMoveValidCall(w, x, y) == [w |-> w, result |-> MemIsMoveValid(w, x, y)]

RpsIsMoveValidCall(w, x, y) == [w |-> w, result |-> RpsIsMoveValid(w, x, y)]

isMoveValidCall(p, w, x, y) ==
  IF p = MEMORY THEN MemIsMoveValidCall(w, x, y) ELSE RpsIsMoveValidCall(w, x, y)

\* ------------------------------------------------------------------------
\* State
\* ------------------------------------------------------------------------
VARIABLES
  currentPlugin,  \* the session's active plugin, or NoPlugin
  state,          \* Empty, AwaitingMove, MoveInProgress or GameOver
  grid,           \* GridModel cells of the active session
  footer,         \* GridModel footer
  registered,     \* the plugins onRegister was called on, with the number of calls
  mp,             \* the MemoryPlugin instance
  rps,            \* the rock-paper-scissors plugin instance (its closure variables)
  calls,          \* the plugin methods the last request invoked, in order
  err,            \* the error the last request ended with, or NoError
  request,        \* the last /plugin or /play request, as the session received it
  inflight,       \* per request thread: the coordinates of a move it is applying, or << >>
  lock,           \* the thread inside a session operation, or NoThread
  mismatches      \* mismatching turns played in the current game (bounds the exploration)

vars == <<currentPlugin, state, grid, footer, registered, mp, rps, calls, err, request,
         inflight, lock, mismatches>>

\* a request that carries no coordinates
NoRequest(kind) ==
  [kind |-> kind, inGrid |-> FALSE, valid |-> FALSE, played |-> <<>>, drawn |-> NoMove]

\* App.plugins, as loadPlugins returns them
Threads == 1 .. NumThreads
NoThread == 0

plugins == <<MEMORY, RPS>>

PluginIndexes == (1 - IndexMargin) .. (Len(plugins) + IndexMargin)

World == [mp |-> mp, rps |-> rps, grid |-> grid, footer |-> footer, err |-> NoError]

\* ------------------------------------------------------------------------
\* GameSession (the framework core)
\* ------------------------------------------------------------------------
hasGame == currentPlugin # NoPlugin

\* registerPlugin: the plugin is handed the framework, once
registerPlugin(p, w, reg) ==
  IF reg[p] = 0 THEN [w |-> onRegister(p, w), registered |-> [reg EXCEPT ![p] = 1],
                      calls |-> <<"onRegister">>]
  ELSE [w |-> w, registered |-> reg, calls |-> <<>>]

\* selectPlugin / startNewGame
startNewGame(p, w, seed) ==
  LET closed == IF hasGame THEN onGameClosed(currentPlugin, w) ELSE w
      closeCalls == IF hasGame THEN <<"onGameClosed">> ELSE <<>>
      fresh == [closed EXCEPT !.grid = NewGrid(getGridWidth(p), getGridHeight(p)),
                              !.footer = ""]
      reg == registerPlugin(p, fresh, registered)
  IN [ w |-> onNewGame(p, reg.w, seed),
       registered |-> reg.registered,
       state |-> "AwaitingMove",
       calls |-> closeCalls \o reg.calls \o <<"onNewGame">> ]

InRange(p, x, y) ==
  /\ 0 <= x /\ x < getGridWidth(p)
  /\ 0 <= y /\ y < getGridHeight(p)

\* the session's state once a played coordinate has been applied
AfterMove(p, w) ==
  IF ~isMoveOver(p, w) THEN [state |-> "MoveInProgress", calls |-> <<"isMoveOver">>]
  ELSE IF isGameOver(p, w) THEN [state |-> "GameOver", calls |-> <<"isMoveOver", "isGameOver">>]
  ELSE [state |-> "AwaitingMove", calls |-> <<"isMoveOver", "isGameOver">>]

\* playMove handing coordinates outside the grid to the plugin
playMoveUnchecked(p, st, w, x, y, u) ==
  IF p = NoPlugin \/ st = "GameOver" THEN [w |-> w, state |-> st, calls |-> <<>>]
  ELSE LET turn == IF st = "AwaitingMove" THEN onNewMove(p, w) ELSE w
           turnCalls == IF st = "AwaitingMove" THEN <<"onNewMove">> ELSE <<>>
       IN IF ~isMoveValid(p, turn, x, y)
          THEN [w |-> turn, state |-> st, calls |-> turnCalls \o <<"isMoveValid">>]
          ELSE LET played == onMovePlayed(p, turn, x, y, u)
                   playCalls == turnCalls \o <<"isMoveValid", "onMovePlayed">>
               IN IF played.err # NoError
                  THEN [w |-> played, state |-> st, calls |-> playCalls]
                  ELSE [w |-> played, state |-> AfterMove(p, played).state,
                        calls |-> playCalls \o AfterMove(p, played).calls]

\* playMove playing on in a game that is over
playMoveAfterOver(p, st, w, x, y, u) ==
  IF p = NoPlugin THEN [w |-> w, state |-> st, calls |-> <<>>]
  ELSE LET turn == IF st = "AwaitingMove" THEN onNewMove(p, w) ELSE w
           turnCalls == IF st = "AwaitingMove" THEN <<"onNewMove">> ELSE <<>>
       IN IF ~InRange(p, x, y)
          THEN [w |-> turn, state |-> st, calls |-> turnCalls]
          ELSE IF ~isMoveValid(p, turn, x, y)
          THEN [w |-> turn, state |-> st, calls |-> turnCalls \o <<"isMoveValid">>]
          ELSE LET played == onMovePlayed(p, turn, x, y, u)
                   playCalls == turnCalls \o <<"isMoveValid", "onMovePlayed">>
               IN IF played.err # NoError
                  THEN [w |-> played, state |-> st, calls |-> playCalls]
                  ELSE [w |-> played, state |-> AfterMove(p, played).state,
                        calls |-> playCalls \o AfterMove(p, played).calls]

playMove(p, st, w, x, y, u) ==
  IF p = NoPlugin \/ st = "GameOver" THEN [w |-> w, state |-> st, calls |-> <<>>]
  ELSE LET turn == IF st = "AwaitingMove" THEN onNewMove(p, w) ELSE w
           turnCalls == IF st = "AwaitingMove" THEN <<"onNewMove">> ELSE <<>>
       IN IF ~InRange(p, x, y)
          THEN [w |-> turn, state |-> st, calls |-> turnCalls]
          ELSE IF ~isMoveValid(p, turn, x, y)
          THEN [w |-> turn, state |-> st, calls |-> turnCalls \o <<"isMoveValid">>]
          ELSE LET played == onMovePlayed(p, turn, x, y, u)
                   playCalls == turnCalls \o <<"isMoveValid", "onMovePlayed">>
               IN IF played.err # NoError
                  THEN [w |-> played, state |-> st, calls |-> playCalls]
                  ELSE [w |-> played, state |-> AfterMove(p, played).state,
                        calls |-> playCalls \o AfterMove(p, played).calls]

\* playMove up to and including the validity check: whether the coordinates go
\* on to onMovePlayed
beginMove(p, st, w, x, y) ==
  IF p = NoPlugin \/ st = "GameOver" THEN [w |-> w, proceed |-> FALSE, calls |-> <<>>]
  ELSE LET turn == IF st = "AwaitingMove" THEN onNewMove(p, w) ELSE w
           turnCalls == IF st = "AwaitingMove" THEN <<"onNewMove">> ELSE <<>>
       IN IF ~InRange(p, x, y)
          THEN [w |-> turn, proceed |-> FALSE, calls |-> turnCalls]
          ELSE [w |-> turn, proceed |-> isMoveValid(p, turn, x, y),
                calls |-> turnCalls \o <<"isMoveValid">>]

\* playMove from onMovePlayed on
finishMove(p, st, w, x, y, u) ==
  LET played == onMovePlayed(p, w, x, y, u)
  IN IF played.err # NoError
     THEN [w |-> played, state |-> st, calls |-> <<"onMovePlayed">>]
     ELSE [w |-> played, state |-> AfterMove(p, played).state,
           calls |-> <<"onMovePlayed">> \o AfterMove(p, played).calls]

\* a session without its lock
SessionUnlocked == TRUE

\* the session's lock is free
SessionFree == lock = NoThread

\* SessionView
renderSnapshot(p, st, w) ==
  [ cells |-> w.grid,
    footer |-> w.footer,
    currentPlayer |-> IF p = NoPlugin THEN "" ELSE currentPlayer(p, w),
    gameOverMessage |-> IF st = "GameOver" THEN getGameOverMessage(p, w).message ELSE "" ]

\* ------------------------------------------------------------------------
\* App: construction and the requests it serves
\* ------------------------------------------------------------------------
\* construction without the registration loop
InitUnregistered ==
  \E seed \in Seeds :
    /\ currentPlugin = NoPlugin
    /\ state = "Empty"
    /\ grid = << >>
    /\ footer = ""
    /\ registered = [p \in {MEMORY, RPS} |-> 0]
    /\ mp = NewMemoryPlugin(seed)
    /\ rps = NewRpsPlugin
    /\ calls = <<>>
    /\ err = NoError
    /\ request = NoRequest("none")
    /\ inflight = [t \in Threads |-> <<>>]
    /\ lock = NoThread
    /\ mismatches = 0

Init ==
  \E seed \in Seeds :
    LET w0 == [mp |-> NewMemoryPlugin(seed), rps |-> NewRpsPlugin,
               grid |-> << >>, footer |-> "", err |-> NoError]
        r1 == registerPlugin(plugins[1], w0, [p \in {MEMORY, RPS} |-> 0])
        r2 == registerPlugin(plugins[2], r1.w, r1.registered)
    IN /\ currentPlugin = NoPlugin
       /\ state = "Empty"
       /\ grid = r2.w.grid
       /\ footer = r2.w.footer
       /\ registered = r2.registered
       /\ mp = r2.w.mp
       /\ rps = r2.w.rps
       /\ calls = <<>>
       /\ err = NoError
       /\ request = NoRequest("none")
       /\ inflight = [t \in Threads |-> <<>>]
       /\ lock = NoThread
       /\ mismatches = 0

\* /plugin closing the running game before it looks the index up
ServePluginClosesFirst(i, seed) ==
  IF i \in 0 .. (Len(plugins) - 1)
  THEN \E started \in {startNewGame(plugins[i + 1], World, seed)} :
          /\ currentPlugin' = plugins[i + 1]
          /\ state' = started.state
          /\ grid' = started.w.grid
          /\ footer' = started.w.footer
          /\ registered' = started.registered
          /\ mp' = started.w.mp
          /\ rps' = started.w.rps
          /\ calls' = started.calls
          /\ err' = NoError
          /\ request' = NoRequest("plugin")
          /\ mismatches' = 0
          /\ UNCHANGED <<inflight, lock>>
  ELSE /\ err' = "IndexOutOfBoundsException"
       /\ calls' = IF hasGame THEN <<"onGameClosed">> ELSE <<>>
       /\ currentPlugin' = NoPlugin
       /\ state' = "Empty"
       /\ request' = NoRequest("plugin")
       /\ UNCHANGED <<grid, footer, registered, mp, rps, mismatches, inflight, lock>>

\* /plugin?i=...
ServePlugin(i, seed) ==
  IF i \in 0 .. (Len(plugins) - 1)
  THEN \E started \in {startNewGame(plugins[i + 1], World, seed)} :
          /\ currentPlugin' = plugins[i + 1]
          /\ state' = started.state
          /\ grid' = started.w.grid
          /\ footer' = started.w.footer
          /\ registered' = started.registered
          /\ mp' = started.w.mp
          /\ rps' = started.w.rps
          /\ calls' = started.calls
          /\ err' = NoError
          /\ request' = NoRequest("plugin")
          /\ mismatches' = 0
          /\ UNCHANGED <<inflight, lock>>
  ELSE /\ err' = "IndexOutOfBoundsException"
       /\ calls' = <<>>
       /\ request' = NoRequest("plugin")
       /\ UNCHANGED <<currentPlugin, state, grid, footer, registered, mp, rps, mismatches,
                      inflight, lock>>

Invoked(cs, method) == \E k \in DOMAIN cs : cs[k] = method

\* a /play request: whether its coordinates name a cell of the grid, what the
\* active plugin's isMoveValid says of them when the request arrives, the
\* coordinates when they were handed to onMovePlayed, and the move randomMove
\* returned when they were handed to the rock-paper-scissors plugin
PlayRequest(x, y, u, reached) ==
  [kind |-> "play",
   inGrid |-> <<x, y>> \in DOMAIN grid,
   valid |-> hasGame /\ isMoveValid(currentPlugin, World, x, y),
   played |-> IF reached THEN <<x, y>> ELSE <<>>,
   drawn |-> IF reached /\ currentPlugin = RPS THEN randomMove(u) ELSE NoMove]

\* /play starting the game again once it is over
ServePlayRestarts(x, y, u) ==
  IF hasGame /\ state = "GameOver"
  THEN \E seed \in Seeds :
         \E started \in {startNewGame(currentPlugin, World, seed)} :
           /\ state' = started.state
           /\ grid' = started.w.grid
           /\ footer' = started.w.footer
           /\ registered' = started.registered
           /\ mp' = started.w.mp
           /\ rps' = started.w.rps
           /\ calls' = started.calls
           /\ err' = NoError
           /\ request' = PlayRequest(x, y, 0, FALSE)
           /\ mismatches' = 0
           /\ UNCHANGED <<currentPlugin, inflight, lock>>
  ELSE IF hasGame
  THEN \E moved \in {playMove(currentPlugin, state, World, x, y, u)} :
          /\ state' = moved.state
          /\ grid' = moved.w.grid
          /\ footer' = moved.w.footer
          /\ mp' = moved.w.mp
          /\ rps' = moved.w.rps
          /\ calls' = moved.calls
          /\ err' = moved.w.err
          /\ request' = PlayRequest(x, y, u, Invoked(moved.calls, "onMovePlayed"))
          /\ mismatches' = IF moved.state = "AwaitingMove" /\ Invoked(moved.calls, "onMovePlayed")
                           THEN mismatches + 1 ELSE mismatches
          /\ UNCHANGED <<currentPlugin, registered, inflight, lock>>
  ELSE /\ calls' = <<>>
       /\ err' = NoError
       /\ request' = PlayRequest(x, y, 0, FALSE)
       /\ UNCHANGED <<currentPlugin, state, grid, footer, registered, mp, rps, mismatches,
                      inflight, lock>>

\* /play?x=...&y=...
ServePlay(x, y, u) ==
  IF hasGame
  THEN \E moved \in {playMove(currentPlugin, state, World, x, y, u)} :
          /\ state' = moved.state
          /\ grid' = moved.w.grid
          /\ footer' = moved.w.footer
          /\ mp' = moved.w.mp
          /\ rps' = moved.w.rps
          /\ calls' = moved.calls
          /\ err' = moved.w.err
          /\ request' = PlayRequest(x, y, u, Invoked(moved.calls, "onMovePlayed"))
          /\ mismatches' = IF moved.state = "AwaitingMove" /\ Invoked(moved.calls, "onMovePlayed")
                           THEN mismatches + 1 ELSE mismatches
          /\ UNCHANGED <<currentPlugin, registered, inflight, lock>>
  ELSE /\ calls' = <<>>
       /\ err' = NoError
       /\ request' = PlayRequest(x, y, 0, FALSE)
       /\ UNCHANGED <<currentPlugin, state, grid, footer, registered, mp, rps, mismatches,
                      inflight, lock>>

\* /start
ServeStart == UNCHANGED vars

\* /plugin?i=... served on thread t: the whole of selectPlugin under the lock
ThreadSelect(t, i, seed) ==
  /\ inflight[t] = <<>>
  /\ SessionFree
  /\ ServePlugin(i, seed)

\* /play?x=...&y=... served on thread t, first part: the session's lock is
\* taken and playMove runs up to the validity check
ThreadCheck(t, x, y) ==
  /\ inflight[t] = <<>>
  /\ SessionFree
  /\ hasGame
  /\ \E begun \in {beginMove(currentPlugin, state, World, x, y)} :
        /\ grid' = begun.w.grid
        /\ footer' = begun.w.footer
        /\ mp' = begun.w.mp
        /\ rps' = begun.w.rps
        /\ calls' = begun.calls
        /\ err' = NoError
        /\ request' = PlayRequest(x, y, 0, FALSE)
        /\ inflight' = [inflight EXCEPT ![t] = IF begun.proceed THEN <<x, y>> ELSE <<>>]
        /\ lock' = IF begun.proceed THEN t ELSE lock
        /\ UNCHANGED <<currentPlugin, state, registered, mismatches>>

\* second part: onMovePlayed and the end of the turn, then the lock is released
ThreadPlay(t, u) ==
  /\ inflight[t] # <<>>
  /\ \E done \in {finishMove(currentPlugin, state, World, inflight[t][1], inflight[t][2], u)} :
        /\ state' = done.state
        /\ grid' = done.w.grid
        /\ footer' = done.w.footer
        /\ mp' = done.w.mp
        /\ rps' = done.w.rps
        /\ calls' = done.calls
        /\ err' = done.w.err
        /\ request' = PlayRequest(inflight[t][1], inflight[t][2], u, TRUE)
        /\ mismatches' = IF done.state = "AwaitingMove" THEN mismatches + 1 ELSE mismatches
        /\ inflight' = [inflight EXCEPT ![t] = <<>>]
        /\ lock' = NoThread
        /\ UNCHANGED <<currentPlugin, registered>>

\* ------------------------------------------------------------------------
\* Specifications
\* ------------------------------------------------------------------------
PairsMatched(m) == Cardinality({i \in DOMAIN m.game.board : m.game.board[i] = NULL}) \div 2

\* Math.random() is drawn only by the rock-paper-scissors plugin's onMovePlayed
Randoms == IF currentPlugin = RPS THEN RandomValues ELSE {0}

\* coordinates played in the running game
MovesPlayed ==
  IF currentPlugin = MEMORY
  THEN 2 * (PairsMatched(mp) + mismatches) + (IF mp.numberOfCardsSelected = 1 THEN 1 ELSE 0)
  ELSE IF currentPlugin = RPS /\ rps.gameResult # NULL THEN 1 ELSE 0

\* a /plugin request for the running plugin at any time; for another plugin
\* or a bad index within SwitchMoves coordinates of a game
Switchable(i) ==
  \/ i \in 1 .. Len(plugins) /\ plugins[i] = currentPlugin
  \/ MovesPlayed <= SwitchMoves

\* a turn in progress was started at one of the first FirstCards positions
FirstCardBelow(m) == m.numberOfCardsSelected = 1 => m.firstIndexSelected < FirstCards

\* Both plugins, memory games of at most MixedTurns resolved turns.
Next ==
  \/ \E i \in PluginIndexes, seed \in Seeds :
       /\ Switchable(i)
       /\ ServePlugin(i - 1, seed)
  \/ \E x \in Xs, y \in Ys, u \in Randoms :
       /\ ServePlay(x, y, u)
       /\ PairsMatched(mp') + mismatches' <= MixedTurns
       /\ FirstCardBelow(mp')
  \/ ServeStart

Spec == Init /\ [][Next]_vars

\* The memory plugin alone, games of at most MaxTurns resolved turns.
NextMemory ==
  \/ \E i \in PluginIndexes, seed \in Seeds :
       /\ Switchable(i)
       /\ i \in 1 .. Len(plugins) => plugins[i] = MEMORY
       /\ ServePlugin(i - 1, seed)
  \/ \E x \in Xs, y \in Ys, u \in Randoms :
       /\ ServePlay(x, y, u)
       /\ PairsMatched(mp') + mismatches' <= MaxTurns
       /\ FirstCardBelow(mp')
  \/ ServeStart

SpecMemory == Init /\ [][NextMemory]_vars

\* Requests served on NumThreads threads; a /play is served in two steps.
NextThreads ==
  \/ \E t \in Threads, i \in PluginIndexes, seed \in Seeds :
       /\ Switchable(i)
       /\ ThreadSelect(t, i - 1, seed)
  \/ \E t \in Threads, x \in Xs, y \in Ys : ThreadCheck(t, x, y)
  \/ \E t \in Threads, u \in Randoms :
       /\ ThreadPlay(t, u)
       /\ PairsMatched(mp') + mismatches' <= MixedTurns
       /\ FirstCardBelow(mp')
  \/ ServeStart

SpecThreads == Init /\ [][NextThreads]_vars

\* the board positions still holding a card
CardsLeft(m) == {k \in 0 .. (Len(m.game.board) - 1) : hasItemAt(m.game, k)}

\* a turn in progress was started at the lowest card left
LowestFirst(m) ==
  (m.numberOfCardsSelected = 1 /\ CardsLeft(m) # {}) =>
    \A k \in CardsLeft(m) : m.firstIndexSelected <= k

\* Whole games: every turn of a memory game starts at the lowest card left and
\* matches it, and a plugin is selected when no game is running or the running
\* one is over.
NextGame ==
  \/ \E i \in PluginIndexes, seed \in Seeds :
       /\ ~hasGame \/ isGameOver(currentPlugin, World)
       /\ ServePlugin(i - 1, seed)
  \/ \E x \in Xs, y \in Ys, u \in Randoms :
       /\ ServePlay(x, y, u)
       /\ mismatches' = 0
       /\ LowestFirst(mp')
  \/ ServeStart

SpecGame == Init /\ [][NextGame]_vars

\* ------------------------------------------------------------------------
\* Properties
\* ------------------------------------------------------------------------
\* the grid cell showing board position `position`
CellOf(position) == <<position % WIDTH, position \div WIDTH>>

\* the current-player label of the session
Label == IF hasGame THEN currentPlayer(currentPlugin, World) ELSE ""

\* C1: silent rejection. A playMove(x, y) the active plugin's isMoveValid(x, y)
\* is false for leaves every grid cell, the footer and the current-player
\* label as they were, and does not invoke onMovePlayed.
C1_SilentRejection ==
  [][( /\ hasGame
       /\ state # "GameOver"
       /\ request'.kind = "play"
       /\ ~request'.valid ) =>
       /\ grid' = grid
       /\ footer' = footer
       /\ Label' = Label
       /\ ~Invoked(calls', "onMovePlayed")]_vars

\* a matched card clicked as the first coordinate of the turn after a mismatch
C1_Witness ==
  /\ currentPlugin = MEMORY
  /\ request.kind = "play" /\ request.inGrid /\ ~request.valid
  /\ calls = <<"onNewMove", "isMoveValid">>
  /\ footer = NOT_A_MATCH_MSG

\* C2: memory game-over detection. Once every pair of the memory board has
\* been matched, the session is in GameOver.
C2_GameOverOnLastPair ==
  (currentPlugin = MEMORY /\ isOver(mp.game)) => state = "GameOver"

\* the coordinates the last request handed to onMovePlayed
PlayedX == request.played[1]
PlayedY == request.played[2]
PlayedPosition == boardPositionFor(PlayedX, PlayedY)

\* the step plays, as the second card of a memory turn, a card that is not the
\* first card of the turn
SecondCardPlayed ==
  /\ currentPlugin = MEMORY
  /\ mp.numberOfCardsSelected = 1
  /\ request'.kind = "play"
  /\ request'.played # <<>>
  /\ PlayedPosition' # mp.firstIndexSelected
  /\ mp.game.board[mp.firstIndexSelected + 1] # NULL
  /\ mp.game.board[PlayedPosition' + 1] # NULL

\* C3: memory match. Two distinct positions holding equal items, selected as
\* the first and second card of a turn, report a match, add exactly 1 to the
\* current player's score, leave the other scores and the current player
\* unchanged and remove exactly those two items from the board.
C3_MemoryMatch ==
  [][( /\ SecondCardPlayed
       /\ mp.game.board[mp.firstIndexSelected + 1] = mp.game.board[PlayedPosition' + 1] ) =>
       /\ mp'.matchFound
       /\ footer' = MATCH_FOUND_MSG
       /\ mp'.game.currentPlayer = mp.game.currentPlayer
       /\ \A q \in 0 .. (MEMORY_PLAYERS - 1) :
            mp'.game.scores[q] = mp.game.scores[q] + (IF q = mp.game.currentPlayer THEN 1 ELSE 0)
       /\ mp'.game.board =
            [k \in DOMAIN mp.game.board |->
               IF k - 1 \in {mp.firstIndexSelected, PlayedPosition'}
               THEN NULL ELSE mp.game.board[k]]]_vars

\* the second player has just matched a pair
C3_Witness ==
  /\ currentPlugin = MEMORY
  /\ request.played # <<>>
  /\ footer = MATCH_FOUND_MSG
  /\ mp.game.currentPlayer = 1
  /\ mp.game.scores[1] = 1
  /\ PairsMatched(mp) = 1

\* C4: a memory mismatch advances the turn. Two positions holding different
\* items change currentPlayer() to the next player index modulo the number of
\* players and leave all scores and all board items unchanged.
C4_MismatchAdvances ==
  [][( /\ SecondCardPlayed
       /\ mp.game.board[mp.firstIndexSelected + 1] # mp.game.board[PlayedPosition' + 1] ) =>
       /\ mp'.game.currentPlayer = (mp.game.currentPlayer + 1) % MEMORY_PLAYERS
       /\ Label' = ToString(((mp.game.currentPlayer + 1) % MEMORY_PLAYERS) + 1)
       /\ mp'.game.scores = mp.game.scores
       /\ mp'.game.board = mp.game.board]_vars

\* the second mismatch of a game has brought the turn back to the first player
C4_Witness ==
  /\ currentPlugin = MEMORY
  /\ request.played # <<>>
  /\ mismatches = 2
  /\ footer = NOT_A_MATCH_MSG
  /\ mp.game.currentPlayer = 0
  /\ Label = "1"

\* C5: a mismatch reveal is undone. The first valid move of the turn after a
\* mismatch sets both cells revealed by the mismatch back to '?', except that
\* the newly selected cell shows its own item.
C5_MismatchHidden ==
  [][( /\ currentPlugin = MEMORY
       /\ state = "AwaitingMove"
       /\ footer = NOT_A_MATCH_MSG
       /\ request'.kind = "play"
       /\ request'.played # <<>> ) =>
       \A position \in {mp.firstIndexSelected, mp.secondIndexSelected} :
         grid'[CellOf(position)] =
           IF position = PlayedPosition'
           THEN mp.game.board[position + 1]
           ELSE UNKNOWN_SQUARE_STRING]_vars

\* after a mismatch, the card that was its second card is the new first card
C5_Witness ==
  /\ currentPlugin = MEMORY
  /\ request.played # <<>>
  /\ mp.numberOfCardsSelected = 1
  /\ mismatches = 1
  /\ ~mp.matchFound
  /\ mp.firstIndexSelected = mp.secondIndexSelected
  /\ footer = SELECT_SECOND_CARD_MSG

\* the game-over message of the session's snapshot
GameOverMessage == renderSnapshot(currentPlugin, state, World).gameOverMessage

\* C6: rock-paper-scissors scenario. Playing x = 0 (rock) in a fresh
\* rock-paper-scissors game ends the game, with the message 'You won!' when the
\* opponent's move is scissors and 'The game ended in a tie.' when it is rock;
\* playing x = 0 again afterwards changes neither.
C6_RpsScenario ==
  [][currentPlugin = RPS =>
       /\ state = "AwaitingMove" =>
            \A u \in RandomValues :
              ServePlay(ROCK, 0, u) =>
                /\ state' = "GameOver"
                /\ randomMove(u) = SCISSORS => GameOverMessage' = "You won!"
                /\ randomMove(u) = ROCK => GameOverMessage' = "The game ended in a tie."
       /\ state = "GameOver" =>
            \A u \in RandomValues :
              ServePlay(ROCK, 0, u) =>
                /\ state' = "GameOver"
                /\ GameOverMessage' = GameOverMessage]_vars

\* rock has just been played and has won
C6_Witness ==
  /\ currentPlugin = RPS
  /\ request.played = <<ROCK, 0>>
  /\ state = "GameOver"
  /\ GameOverMessage = "You won!"

\* the step is a selectPlugin that ran onNewGame
NewGameStarted == request'.kind = "plugin" /\ Invoked(calls', "onNewGame")

\* C7: monotonic terminality. Once isGameOver() is true it is true in every
\* later state, until a selectPlugin runs onNewGame.
C7_MonotonicTerminality ==
  [][( /\ hasGame
       /\ isGameOver(currentPlugin, World)
       /\ ~NewGameStarted ) =>
       /\ currentPlugin' = currentPlugin
       /\ isGameOver(currentPlugin', World')]_vars

\* a coordinate played after the last pair of a memory game was matched
C7_Witness ==
  /\ currentPlugin = MEMORY
  /\ isOver(mp.game)
  /\ request.kind = "play"
  /\ request.played = <<>>

\* the value onNewGame gives the cell
FreshSquare(p, cell) ==
  IF p = MEMORY THEN "?" ELSE <<"Rock", "Paper", "Scissors">>[cell[1] + 1]

\* C8: round-trip reset. Immediately after selectPlugin has run onNewGame,
\* every grid cell in [0, width) x [0, height) holds the plugin's value ('?'
\* for memory; 'Rock', 'Paper', 'Scissors' for rock-paper-scissors) and
\* isGameOver() is false.
C8_RoundTripReset ==
  (request.kind = "plugin" /\ Invoked(calls, "onNewGame")) =>
    /\ DOMAIN grid = (0 .. (getGridWidth(currentPlugin) - 1)) \X (0 .. (getGridHeight(currentPlugin) - 1))
    /\ \A cell \in DOMAIN grid : grid[cell] = FreshSquare(currentPlugin, cell)
    /\ ~isGameOver(currentPlugin, World)

\* the memory plugin started again from a game in which a pair had been matched
C8_Witness ==
  /\ currentPlugin = MEMORY
  /\ request.kind = "plugin"
  /\ calls = <<"onGameClosed", "onNewGame">>
  /\ mp.matchFound

\* C9: coordinates out of range are a silent no-op. With a plugin active, a
\* playMove(x, y) with x outside [0, gridWidth) or y outside [0, gridHeight)
\* ends without error, does not invoke onMovePlayed, and leaves the grid, the
\* footer, the scores, the current player and the game-over status unchanged.
C9_OutOfRangeNoOp ==
  [][( /\ hasGame
       /\ request'.kind = "play"
       /\ ~request'.inGrid ) =>
       /\ err' = NoError
       /\ ~Invoked(calls', "onMovePlayed")
       /\ grid' = grid
       /\ footer' = footer
       /\ mp'.game.scores = mp.game.scores
       /\ Label' = Label
       /\ state' = state
       /\ isGameOver(currentPlugin, World') = isGameOver(currentPlugin, World)]_vars

\* coordinates outside the grid that the memory plugin's isMoveValid accepts
C9_Witness ==
  /\ currentPlugin = MEMORY
  /\ request.kind = "play"
  /\ ~request.inGrid
  /\ request.valid
  /\ state = "MoveInProgress"

\* C10: playMove is ignored when no plugin is active or the session is in
\* GameOver: no plugin method is invoked, and the grid, the footer, the
\* current-player label and the game-over message are as before.
C10_IgnoredPlay ==
  [][( /\ ~hasGame \/ state = "GameOver"
       /\ request'.kind = "play" ) =>
       /\ calls' = <<>>
       /\ mp' = mp
       /\ rps' = rps
       /\ renderSnapshot(currentPlugin', state', World') = renderSnapshot(currentPlugin, state, World)]_vars

\* a coordinate played in a game that is over
C10_Witness ==
  /\ hasGame
  /\ state = "GameOver"
  /\ request.kind = "play"
  /\ calls = <<>>
  /\ err = NoError

\* C11: for every plugin, getGameOverMessage() called in a state where
\* isGameOver() is false fails with an 'incomplete game' error instead of
\* returning a message.
C11_IncompleteGameError ==
  (hasGame /\ ~isGameOver(currentPlugin, World)) =>
    getGameOverMessage(currentPlugin, World).err = "Called getGameOverMessage with incomplete game"

\* C12: selecting a plugin with an index outside [0, count) reports an error
\* and leaves the session unchanged: the active plugin stays active and gets
\* no onGameClosed(), and grid, footer and turn state are as before.
C12_BadIndexUnchanged ==
  [][\A i \in PluginIndexes :
       ( /\ (i - 1) \notin 0 .. (Len(plugins) - 1)
         /\ \E seed \in Seeds : ServePlugin(i - 1, seed) ) =>
         /\ err' # NoError
         /\ currentPlugin' = currentPlugin
         /\ ~Invoked(calls', "onGameClosed")
         /\ grid' = grid
         /\ footer' = footer
         /\ state' = state
         /\ mp' = mp
         /\ rps' = rps]_vars

\* a bad index requested while a game is running
C12_Witness ==
  /\ hasGame
  /\ state = "AwaitingMove"
  /\ request.kind = "plugin"
  /\ err = "IndexOutOfBoundsException"

C14_RegisteredOnce ==
  /\ \A p \in {MEMORY, RPS} : registered[p] = 1
  /\ ~Invoked(calls, "onRegister")

\* the running plugin selected again
C14_Witness ==
  /\ currentPlugin = RPS
  /\ request.kind = "plugin"
  /\ calls = <<"onGameClosed", "onNewGame">>
  /\ registered[RPS] = 1
  /\ rps.framework

Beats(opponentState, thisState) ==
  <<opponentState, thisState>> \in {<<PAPER, ROCK>>, <<SCISSORS, PAPER>>, <<ROCK, SCISSORS>>}

StandardResult(thisState, opponentState) ==
  IF thisState = opponentState THEN TIE
  ELSE IF Beats(opponentState, thisState) THEN LOSE
  ELSE WIN

\* C16: for every pair of moves in {ROCK, PAPER, SCISSORS}, winner returns the
\* standard rock-paper-scissors result: whenever the player's move was played
\* against a drawn ROCK, PAPER or SCISSORS, the game's result is TIE for equal
\* moves, LOSE when the drawn move beats the player's, WIN otherwise.
C16_StandardWinner ==
  ( /\ currentPlugin = RPS
    /\ request.played # <<>>
    /\ request.drawn \in {ROCK, PAPER, SCISSORS} ) =>
      /\ rps.gameResult = StandardResult(PlayedX, request.drawn)
      /\ winner(PlayedX, request.drawn) = StandardResult(PlayedX, request.drawn)

\* C17: the move randomMove returns is ROCK, PAPER or SCISSORS whenever a
\* rock-paper-scissors move is played.
C17_RandomMoveLegal ==
  (currentPlugin = RPS /\ request.played # <<>>) =>
    request.drawn \in {ROCK, PAPER, SCISSORS}

\* C18: player input never crashes the memory plugin: in no state of a memory
\* game has a request ended with the plugin's 'assertion failed' error or with
\* the game's 'Player selected empty position' error.
C18_NoPluginCrash ==
  currentPlugin = MEMORY =>
    /\ err # "assertion failed"
    /\ err # "Player selected empty position"

\* the first card of a new turn accepted after a mismatch and a match
C18_Witness ==
  /\ currentPlugin = MEMORY
  /\ mismatches = 1
  /\ PairsMatched(mp) = 1
  /\ mp.numberOfCardsSelected = 1
  /\ Invoked(calls, "onMovePlayed")
  /\ request.played # <<>>
  /\ err = NoError

\* the board positions of the memory game holding `item`
PositionsOf(item) == {i \in DOMAIN mp.game.board : mp.game.board[i] = item}

\* the items still on the board
ItemsLeft == {WORDS[k] : k \in DOMAIN WORDS} \cap {mp.game.board[i] : i \in DOMAIN mp.game.board}

RemovedPairs == Len(WORDS) - Cardinality(ItemsLeft)

RECURSIVE ScoreSum(_)
ScoreSum(players) ==
  IF players = 0 THEN 0
  ELSE ScoreSum(players - 1) + scoreForPlayer(mp.game, players - 1)

\* C19: score and board conservation of the memory game. Every board position
\* holds an item or is empty, the empty positions are two per removed item,
\* every item left is on the board exactly twice, the scores of all players
\* sum to the number of removed pairs, the current player is one of the
\* players, and when the game is over the scores sum to the number of
\* distinct items.
C19_Conservation ==
  /\ \A i \in DOMAIN mp.game.board :
       mp.game.board[i] = NULL \/ mp.game.board[i] \in ItemsLeft
  /\ Cardinality(PositionsOf(NULL)) = 2 * RemovedPairs
  /\ \A item \in ItemsLeft : Cardinality(PositionsOf(item)) = 2
  /\ ScoreSum(mp.game.numberOfPlayers) = RemovedPairs
  /\ mp.game.currentPlayer \in 0 .. (mp.game.numberOfPlayers - 1)
  /\ isOver(mp.game) => ScoreSum(mp.game.numberOfPlayers) = Len(WORDS)

\* the second player has scored a pair after the first player's mismatch
C19_Witness ==
  /\ currentPlugin = MEMORY
  /\ mismatches = 1
  /\ mp.game.currentPlayer = 1
  /\ scoreForPlayer(mp.game, 1) = 1
  /\ RemovedPairs = 1
  /\ request.played # <<>>

\* the board positions of the cards selected in the turn in progress or, when
\* none is in progress, in the turn just resolved
Selected ==
  IF mp.numberOfCardsSelected = 1 THEN {mp.firstIndexSelected}
  ELSE IF mp.firstIndexSelected >= 0 /\ mp.secondIndexSelected >= 0
  THEN {mp.firstIndexSelected, mp.secondIndexSelected}
  ELSE {}

\* C20: the memory grid reflects the game state. While the memory plugin is
\* active every cell of the WIDTH x HEIGHT grid holds a defined string; the
\* cells of the selected cards, at most two, display an item word (the card's
\* item while it is on the board); every other cell displays '?' if its card
\* is still on the board and '' if it has been matched.
C20_GridReflectsGame ==
  currentPlugin = MEMORY =>
    /\ DOMAIN grid = Cells(WIDTH, HEIGHT)
    /\ Cardinality(Selected) <= 2
    /\ \A position \in 0 .. (Len(mp.game.board) - 1) :
         /\ grid[CellOf(position)] # UNDEFINED
         /\ position \in Selected =>
              /\ grid[CellOf(position)] \in {WORDS[k] : k \in DOMAIN WORDS}
              /\ hasItemAt(mp.game, position) =>
                   grid[CellOf(position)] = itemAt(mp.game, position)
         /\ position \notin Selected =>
              grid[CellOf(position)] = IF hasItemAt(mp.game, position)
                                       THEN UNKNOWN_SQUARE_STRING
                                       ELSE BLANK_SQUARE_STRING

\* the first card of a turn is shown after a mismatch was hidden again and a
\* matched pair was blanked
C20_Witness ==
  /\ currentPlugin = MEMORY
  /\ mp.numberOfCardsSelected = 1
  /\ mismatches = 1
  /\ PairsMatched(mp) = 1
  /\ mp.secondIndexSelected >= 0
  /\ mp.secondIndexSelected # mp.firstIndexSelected
  /\ grid[CellOf(mp.secondIndexSelected)] \in {UNKNOWN_SQUARE_STRING, BLANK_SQUARE_STRING}
  /\ grid[CellOf(mp.firstIndexSelected)] = itemAt(mp.game, mp.firstIndexSelected)

====
